---- MODULE Spec2Model ----
(***************************************************************************)
(* Model of the door/access security controller (app/app.py).              *)
(*                                                                         *)
(* One SecuritySystem object is shared by the MQTT network-loop thread,    *)
(* which runs on_message for one message at a time, and by the threads of  *)
(* the threading.Timer objects the handlers start.  A `with                *)
(* self.state_lock` block of a timer callback is one step, taken only      *)
(* while the message thread does not hold the lock; every statement of a   *)
(* callback that touches shared state outside the lock is a step of its    *)
(* own.  Timer objects carry no identity: each handle field is described   *)
(* by the position of the object it refers to, and the live objects no     *)
(* field refers to any more are kept as a multiset of positions.           *)
(***************************************************************************)
EXTENDS Integers, Sequences, FiniteSets

\* Timer threads that can be alive at the same time; a message that would
\* start one more is not delivered until one of them has ended.
MaxLive == 2

\* ---- configuration (module-level variables of app.py) -------------------

DOOR_TOPIC == "door"
ACCESS_TOPIC == "access"
ACCESS_BUTTON == "button"

\* uids are strings; a string is modelled as the sequence of its characters
UidAb == <<"A", "b">>
UidLower == <<"a", "b">>
UidUpper == <<"A", "B">>
UidOther == <<"a", "a">>

ALLOWED_USERS == << [uid |-> UidAb] >>

States == {"disarmed", "armed", "button_pending", "trigger_pending", "alarm"}

\* ---- inbound messages ----------------------------------------------------

Uids == {UidAb, UidLower, UidUpper, UidOther}

\* a decoded JSON object: the keys the handlers look at, "absent" when the
\* key is not in the object
\* (contact: the "contact" key, "null" for the JSON value null; button: the
\* ACCESS_BUTTON_PAYLOAD key; nfc: "UID" when data["PN532"]["UID"] exists and
\* is a string, and uid is then its value, "UID_number" when it exists and is
\* a number, "notobject" when data["PN532"] is a number)
Payload(contact, button, nfc, uid) ==
    [json |-> "object", contact |-> contact, button |-> button, nfc |-> nfc,
     uid |-> uid]

NoPayload == Payload("absent", "absent", "absent", <<>>)

\* a payload that is not a JSON object: "undecodable" (bytes that are not
\* UTF-8 or not JSON), "number" (a JSON number), "array" (a JSON array
\* holding none of the keys)
NotObject(kind) == [NoPayload EXCEPT !.json = kind]

DoorPayload(c) == Payload(c, "absent", "absent", <<>>)
ButtonPayload(b) == Payload("absent", b, "absent", <<>>)
NfcPayload(u) == Payload("absent", "absent", "UID", u)

Message(topic, data) == [topic |-> topic, data |-> data]

NoMessage == Message("none", NoPayload)

\* the messages the broker delivers
Messages ==
    { Message(DOOR_TOPIC, DoorPayload(c)) : c \in {"true", "false"} }
    \cup { Message(ACCESS_TOPIC, NfcPayload(u)) : u \in Uids }
    \cup { Message(ACCESS_TOPIC, ButtonPayload("ON")),
           Message(ACCESS_BUTTON, ButtonPayload("ON")),
           Message(DOOR_TOPIC, ButtonPayload("ON")),
           Message(ACCESS_TOPIC, Payload("absent", "ON", "UID", UidAb)),
           Message("other", NfcPayload(UidAb)) }
    \cup { Message(DOOR_TOPIC, NotObject("undecodable")),
           Message(DOOR_TOPIC, NotObject("number")),
           Message(ACCESS_TOPIC, NotObject("number")),
           Message(ACCESS_TOPIC, NotObject("array")),
           Message(ACCESS_TOPIC, Payload("absent", "absent", "notobject", <<>>)),
           Message(ACCESS_TOPIC, Payload("absent", "absent", "UID_number", <<>>)),
           Message(DOOR_TOPIC, DoorPayload("null")) }

\* ---- pure helpers ----------------------------------------------------------

\* str.lower() on one character of the alphabet used
LowerChar(c) == CASE c = "A" -> "a" [] c = "B" -> "b" [] OTHER -> c

Lower(s) == [i \in DOMAIN s |-> LowerChar(s[i])]

\* any(user["uid"].lower() == uid.lower() for user in ALLOWED_USERS)
UidAllowed_FirstChar(uid) ==
    \E k \in DOMAIN ALLOWED_USERS : Lower(ALLOWED_USERS[k].uid)[1] = Lower(uid)[1]

UidAllowed(uid) ==
    \E k \in DOMAIN ALLOWED_USERS : Lower(ALLOWED_USERS[k].uid) = Lower(uid)

\* on_message: which handler a topic is dispatched to
Route(topic) ==
    IF topic = DOOR_TOPIC THEN "door"
    ELSE IF topic = ACCESS_TOPIC \/ ACCESS_BUTTON # "" THEN "access"
    ELSE "unknown"

\* process_door_message: the branch that calls start_trigger_timer
\* (current_state == "armed" and not door_closed)
DoorTriggers_Closed(current_state, contact) ==
    current_state = "armed" /\ contact = "true"

DoorTriggers_AnyContact(current_state, contact) ==
    current_state = "armed"

DoorTriggers(current_state, contact) ==
    current_state = "armed" /\ contact \in {"false", "null"}

\* process_access_message: the button test made first
IsButtonPress(data) == data.button = "ON"

\* process_access_message: the state in which a button press is accepted
ButtonAccepted_Any(s) == s \in {"disarmed", "armed"}

ButtonAccepted(s) == s = "disarmed"

\* publish_system_state: the payload computed from the state
StateMsg_NoAlarm(s) ==
    IF s \in {"armed", "trigger_pending"} THEN "armed"
    ELSE IF s \in {"disarmed", "button_pending"} THEN "disarmed"
    ELSE "empty"

StateMsg(s) ==
    IF s \in {"armed", "trigger_pending", "alarm"} THEN "armed"
    ELSE IF s \in {"disarmed", "button_pending"} THEN "disarmed"
    ELSE "empty"

\* the indicator commands (power1, power2)
LedDisarmed == <<"on", "off">>
LedArmed_Swapped == <<"on", "off">>

LedArmed == <<"off", "on">>
LedButtonPending == <<"off", "blink">>
LedTriggerPending == <<"blink", "on">>
LedAlarm == <<"blink", "blink">>

\* the state end_button_timer sets
ButtonTimeoutState_Disarmed == "disarmed"

ButtonTimeoutState == "armed"

\* trigger_alarm: the guard under which the alarm is raised
TriggerStillPending_OrAlarm(s) == s \in {"trigger_pending", "alarm"}

TriggerStillPending(s) == s = "trigger_pending"

VARIABLES
    system_state,   \* self.system_state
    lock_owner,     \* holder of self.state_lock between steps: "none" or "msg"
    trigger_timer,  \* self.trigger_timer: the Timer object it refers to
    button_timer,   \* self.button_timer
    alarm_timer,    \* self.alarm_timer
    trig_others,    \* live trigger Timer threads no field refers to: position -> count
    butt_others,    \* live button Timer threads no field refers to
    alrm_others,    \* live alarm Timer threads no field refers to
    m_pc,           \* position of the network-loop thread
    m_msg,          \* the message on_message is handling or has just handled
    m_cur,          \* current_state local of process_door_message
    m_wrote,        \* the state the running handler has set, "none" if it has set none
    led,            \* last indicator command published
    pub,            \* last status payload published
    owed            \* entries into alarm whose notification has not been issued yet

vars == << system_state, lock_owner, trigger_timer, button_timer, alarm_timer,
           trig_others, butt_others, alrm_others, m_pc, m_msg, m_cur, m_wrote,
           led, pub, owed >>

trig_vars == << trigger_timer, trig_others >>
butt_vars == << button_timer, butt_others >>
alrm_vars == << alarm_timer, alrm_others >>
m_vars == << m_pc, m_msg, m_cur, m_wrote >>

\* ---- threading.Timer -------------------------------------------------------

\* A Timer object is described by its position: "None" (the field holds no
\* object), "created" (constructed, not started), "waiting" (started, interval
\* running), "cb_..." (its callback is at that statement), "dead" (cancelled
\* or finished).  A trigger timer also records whether cancel() was called on
\* it after its callback began; a button or alarm timer carries the state_msg
\* local of publish_system_state.
TrigTimer(pc, stale) == [pc |-> pc, stale |-> stale]
PubTimer(pc, msg) == [pc |-> pc, msg |-> msg]

TrigLive ==
    { TrigTimer(pc, b) : pc \in {"waiting", "cb_lock", "cb_led", "cb_new", "cb_start"},
                         b \in BOOLEAN }

PubLive ==
    { PubTimer(pc, "empty") : pc \in {"waiting", "cb_lock", "cb_led", "cb_publish"} }
    \cup { PubTimer("cb_send", m) : m \in {"armed", "disarmed", "empty"} }

IsLive(t) == t.pc \notin {"None", "dead", "created"}

InCallback(t) == t.pc \notin {"None", "dead", "created", "waiting"}

RECURSIVE SumOver(_, _)
SumOver(o, S) ==
    IF S = {} THEN 0
    ELSE LET s == CHOOSE x \in S : TRUE IN o[s] + SumOver(o, S \ {s})

\* number of live timer threads of one kind
LiveCount(h, o) == (IF IsLive(h) THEN 1 ELSE 0) + SumOver(o, DOMAIN o)

\* number of timers of one kind started, not fired and not cancelled
Outstanding(h, o) ==
    (IF h.pc = "waiting" THEN 1 ELSE 0)
    + SumOver(o, { s \in DOMAIN o : s.pc = "waiting" })

TotalLive ==
    LiveCount(trigger_timer, trig_others) + LiveCount(button_timer, butt_others)
    + LiveCount(alarm_timer, alrm_others)

Put(o, s) == [o EXCEPT ![s] = @ + 1]

Take(o, s) == [o EXCEPT ![s] = @ - 1]

\* the field is assigned another value: a live object it referred to lives on
Released(h, o) == IF IsLive(h) THEN Put(o, h) ELSE o

\* who is "handle" for the object the field refers to, "other" for one of
\* the objects no field refers to
Who == {"handle", "other"}

Has(h, o, who, s) == IF who = "handle" THEN h = s ELSE o[s] > 0

\* the timer thread `who` moves from position s to position t
MovedHandle(h, who, t) == IF who = "handle" THEN t ELSE h

MovedOthers(o, who, s, t) ==
    IF who = "handle" THEN o
    ELSE IF t.pc = "dead" THEN Take(o, s) ELSE Put(Take(o, s), t)

\* Timer.cancel(): sets the finished event; a callback already begun goes on
Cancelled(h) ==
    IF h.pc \in {"created", "waiting"} THEN [h EXCEPT !.pc = "dead"] ELSE h

\* Timer.start(): the thread starts waiting; RuntimeError on a second start,
\* no callback if the object was cancelled before (AttributeError on None)
Started(h) ==
    IF h.pc = "created" THEN [h EXCEPT !.pc = "waiting"] ELSE h

\* entries into alarm that a step from state s to state t adds
AlarmEntry(s, t) == IF t = "alarm" /\ s # "alarm" THEN 1 ELSE 0

\* the object as __init__ leaves it, the initial status and indicator command
\* of start() published, no message received yet
Init ==
    /\ system_state = "disarmed"
    /\ lock_owner = "none"
    /\ trigger_timer = TrigTimer("None", FALSE)
    /\ button_timer = PubTimer("None", "empty")
    /\ alarm_timer = PubTimer("None", "empty")
    /\ trig_others = [s \in TrigLive |-> 0]
    /\ butt_others = [s \in PubLive |-> 0]
    /\ alrm_others = [s \in PubLive |-> 0]
    /\ m_pc = "idle"
    /\ m_msg = NoMessage
    /\ m_cur = "none"
    /\ m_wrote = "none"
    /\ led = LedDisarmed
    /\ pub = StateMsg("disarmed")
    /\ owed = 0

NoTrigTimer == TrigTimer("None", FALSE)
NoPubTimer == PubTimer("None", "empty")
DeadTrigTimer == TrigTimer("dead", FALSE)
DeadPubTimer == PubTimer("dead", "empty")

\* ---- the network-loop thread: on_message and the handlers ---------------

\* process_door_message up to the end of its with block: the state is read
\* under the lock and the branch is taken on the value read
ProcessDoorMessage(data) ==
    /\ IF data.contact = "absent"
       THEN /\ m_pc' = "return"
            /\ UNCHANGED m_cur
       ELSE /\ m_cur' = system_state
            /\ m_pc' = IF DoorTriggers(system_state, data.contact)
                       THEN "start_trigger_timer" ELSE "return"
    /\ UNCHANGED << system_state, lock_owner, trig_vars, butt_vars, alrm_vars,
                    led, pub, owed, m_wrote >>

\* process_access_message, button press: the with block, start_button_timer
\* called inside it (set_state, send_led_command, Timer(...).start())
ButtonPress ==
    /\ IF ButtonAccepted(system_state)
       THEN /\ system_state' = "button_pending"
            /\ m_wrote' = "button_pending"
            /\ led' = LedButtonPending
            /\ button_timer' = PubTimer("waiting", "empty")
            /\ butt_others' = Released(button_timer, butt_others)
       ELSE UNCHANGED << system_state, m_wrote, led, butt_vars >>
    /\ m_pc' = "return"
    /\ UNCHANGED << lock_owner, trig_vars, alrm_vars, pub, owed, m_cur >>

\* process_access_message, allowed uid: the with block.  In the alarm branch
\* with a timer object in the field the block goes on in AccessCancelAlarm.
AccessAllowed ==
    IF system_state = "trigger_pending"
    THEN \* cancel_trigger_timer, set_state, send_led_command, publish_system_state
         /\ trigger_timer' = NoTrigTimer
         /\ trig_others' = IF InCallback(trigger_timer)
                           THEN Put(trig_others, [trigger_timer EXCEPT !.stale = TRUE])
                           ELSE trig_others
         /\ system_state' = "disarmed"
         /\ m_wrote' = "disarmed"
         /\ led' = LedDisarmed
         /\ pub' = StateMsg("disarmed")
         /\ m_pc' = "return"
         /\ UNCHANGED << lock_owner, butt_vars, alrm_vars, owed, m_cur >>
    ELSE IF system_state = "alarm" /\ alarm_timer.pc # "None"
    THEN /\ lock_owner' = "msg"
         /\ m_pc' = "cancel_alarm"
         /\ UNCHANGED << system_state, trig_vars, butt_vars, alrm_vars,
                         led, pub, owed, m_cur, m_wrote >>
    ELSE \* set_state, send_led_command, publish_system_state
         /\ system_state' = "disarmed"
         /\ m_wrote' = "disarmed"
         /\ led' = LedDisarmed
         /\ pub' = StateMsg("disarmed")
         /\ m_pc' = "return"
         /\ UNCHANGED << lock_owner, trig_vars, butt_vars, alrm_vars, owed, m_cur >>

\* process_access_message: the button test first, then the PN532 test and
\* the allow-list test
ProcessAccessMessage(data) ==
    IF IsButtonPress(data) THEN ButtonPress
    ELSE IF data.nfc = "UID" /\ UidAllowed(data.uid) THEN AccessAllowed
    ELSE /\ m_pc' = "return"
         /\ UNCHANGED << system_state, lock_owner, trig_vars, butt_vars, alrm_vars,
                         led, pub, owed, m_cur, m_wrote >>

\* the handler of msg would start a timer in the current state
StartsTimer(msg) ==
    \/ /\ Route(msg.topic) = "door"
       /\ DoorTriggers(system_state, msg.data.contact)
    \/ /\ Route(msg.topic) = "access"
       /\ IsButtonPress(msg.data)
       /\ ButtonAccepted(system_state)

\* json.loads succeeded: the except clause of on_message is not taken
Decoded(data) == data.json # "undecodable"

\* the handler of msg raises: `in` applied to a number (TypeError) in
\* process_door_message or process_access_message, .lower() called on a
\* number (AttributeError) in the allow-list test
Raises(msg) ==
    /\ Decoded(msg.data)
    /\ \/ /\ Route(msg.topic) = "door"
          /\ msg.data.json = "number"
       \/ /\ Route(msg.topic) = "access"
          /\ \/ msg.data.json = "number"
             \/ /\ ~IsButtonPress(msg.data)
                /\ \/ msg.data.nfc = "notobject"
                   \/ msg.data.nfc = "UID_number" /\ Len(ALLOWED_USERS) > 0

\* the exception leaves on_message, which no try block of the program
\* encloses: the network-loop thread ends
Raise ==
    /\ m_pc' = "raised"
    /\ UNCHANGED << system_state, lock_owner, trig_vars, butt_vars, alrm_vars,
                    led, pub, owed, m_msg, m_cur, m_wrote >>

\* on_message: decode the payload, dispatch on the topic, run the handler up
\* to the point where another thread's step can matter
OnMessage(msg) ==
    /\ m_pc = "idle"
    /\ lock_owner = "none"
    /\ StartsTimer(msg) => TotalLive < MaxLive
    /\ IF Raises(msg)
       THEN Raise
       ELSE /\ m_msg' = msg
            /\ CASE ~Decoded(msg.data) ->
                       /\ m_pc' = "return"
                       /\ UNCHANGED << system_state, lock_owner, trig_vars, butt_vars,
                                       alrm_vars, led, pub, owed, m_cur, m_wrote >>
                 [] Decoded(msg.data) /\ Route(msg.topic) = "door" ->
                       ProcessDoorMessage(msg.data)
                 [] Decoded(msg.data) /\ Route(msg.topic) = "access" ->
                       ProcessAccessMessage(msg.data)
                 [] OTHER ->
                       /\ m_pc' = "return"
                       /\ UNCHANGED << system_state, lock_owner, trig_vars, butt_vars,
                                       alrm_vars, led, pub, owed, m_cur, m_wrote >>

\* start_trigger_timer: the with block
StartTriggerTimer ==
    /\ m_pc = "start_trigger_timer"
    /\ lock_owner = "none"
    /\ IF system_state # "armed"
       THEN /\ m_pc' = "return"
            /\ UNCHANGED << system_state, m_wrote >>
       ELSE /\ system_state' = "trigger_pending"
            /\ m_wrote' = "trigger_pending"
            /\ m_pc' = "start_trigger_led"
    /\ UNCHANGED << lock_owner, trig_vars, butt_vars, alrm_vars, led, pub, owed,
                    m_msg, m_cur >>

\* start_trigger_timer after the lock is released: send_led_command,
\* self.trigger_timer = Timer(...), self.trigger_timer.start()
StartTriggerLed ==
    /\ m_pc = "start_trigger_led"
    /\ led' = LedTriggerPending
    /\ trigger_timer' = TrigTimer("waiting", FALSE)
    /\ trig_others' = Released(trigger_timer, trig_others)
    /\ m_pc' = "return"
    /\ UNCHANGED << system_state, lock_owner, butt_vars, alrm_vars, pub, owed,
                    m_msg, m_cur, m_wrote >>

\* alarm branch: self.alarm_timer.cancel()
AccessCancelAlarm ==
    /\ m_pc = "cancel_alarm"
    /\ alarm_timer' = Cancelled(alarm_timer)
    /\ m_pc' = "clear_alarm"
    /\ UNCHANGED << system_state, lock_owner, trig_vars, butt_vars, alrm_others,
                    led, pub, owed, m_msg, m_cur, m_wrote >>

\* alarm branch: self.alarm_timer = None, set_state, send_led_command,
\* publish_system_state, end of the with block
AccessClearAlarm ==
    /\ m_pc = "clear_alarm"
    /\ alarm_timer' = NoPubTimer
    /\ alrm_others' = Released(alarm_timer, alrm_others)
    /\ system_state' = "disarmed"
    /\ m_wrote' = "disarmed"
    /\ led' = LedDisarmed
    /\ pub' = StateMsg("disarmed")
    /\ lock_owner' = "none"
    /\ m_pc' = "return"
    /\ UNCHANGED << trig_vars, butt_vars, owed, m_msg, m_cur >>

\* the handler returns to the network loop
Return ==
    /\ m_pc = "return"
    /\ m_pc' = "idle"
    /\ m_msg' = NoMessage
    /\ m_cur' = "none"
    /\ m_wrote' = "none"
    /\ UNCHANGED << system_state, lock_owner, trig_vars, butt_vars, alrm_vars,
                    led, pub, owed >>

\* ---- the trigger timer thread: trigger_alarm ------------------------------

\* Timer.run: the interval has elapsed and finished is not set
TriggerFire(who) ==
    \E s \in TrigLive :
        /\ s.pc = "waiting"
        /\ Has(trigger_timer, trig_others, who, s)
        /\ trigger_timer' = MovedHandle(trigger_timer, who, [s EXCEPT !.pc = "cb_lock"])
        /\ trig_others' = MovedOthers(trig_others, who, s, [s EXCEPT !.pc = "cb_lock"])
        /\ UNCHANGED << system_state, lock_owner, butt_vars, alrm_vars, led, pub, owed,
                        m_vars >>

\* trigger_alarm: the with block
TriggerAlarm(who) ==
    \E s \in TrigLive :
        /\ s.pc = "cb_lock"
        /\ Has(trigger_timer, trig_others, who, s)
        /\ lock_owner = "none"
        /\ IF ~TriggerStillPending(system_state)
           THEN /\ trigger_timer' = MovedHandle(trigger_timer, who, DeadTrigTimer)
                /\ trig_others' = MovedOthers(trig_others, who, s, DeadTrigTimer)
                /\ UNCHANGED << system_state, owed >>
           ELSE /\ system_state' = "alarm"
                /\ owed' = owed + AlarmEntry(system_state, "alarm")
                /\ trigger_timer' = MovedHandle(trigger_timer, who, [s EXCEPT !.pc = "cb_led"])
                /\ trig_others' = MovedOthers(trig_others, who, s, [s EXCEPT !.pc = "cb_led"])
        /\ UNCHANGED << lock_owner, butt_vars, alrm_vars, led, pub, m_vars >>

\* trigger_alarm: send_led_command, send_telegram_message
TriggerAlarmNotify(who) ==
    \E s \in TrigLive :
        /\ s.pc = "cb_led"
        /\ Has(trigger_timer, trig_others, who, s)
        /\ led' = LedAlarm
        /\ owed' = owed - 1
        /\ trigger_timer' = MovedHandle(trigger_timer, who, [s EXCEPT !.pc = "cb_new"])
        /\ trig_others' = MovedOthers(trig_others, who, s, [s EXCEPT !.pc = "cb_new"])
        /\ UNCHANGED << system_state, lock_owner, butt_vars, alrm_vars, pub, m_vars >>

\* trigger_alarm: self.alarm_timer = threading.Timer(...)
TriggerAlarmNew(who) ==
    \E s \in TrigLive :
        /\ s.pc = "cb_new"
        /\ Has(trigger_timer, trig_others, who, s)
        /\ alarm_timer' = PubTimer("created", "empty")
        /\ alrm_others' = Released(alarm_timer, alrm_others)
        /\ trigger_timer' = MovedHandle(trigger_timer, who, [s EXCEPT !.pc = "cb_start"])
        /\ trig_others' = MovedOthers(trig_others, who, s, [s EXCEPT !.pc = "cb_start"])
        /\ UNCHANGED << system_state, lock_owner, butt_vars, led, pub, owed, m_vars >>

\* trigger_alarm: self.alarm_timer.start(); the thread ends
TriggerAlarmStart(who) ==
    \E s \in TrigLive :
        /\ s.pc = "cb_start"
        /\ Has(trigger_timer, trig_others, who, s)
        /\ alarm_timer' = Started(alarm_timer)
        /\ trigger_timer' = MovedHandle(trigger_timer, who, DeadTrigTimer)
        /\ trig_others' = MovedOthers(trig_others, who, s, DeadTrigTimer)
        /\ UNCHANGED << system_state, lock_owner, butt_vars, alrm_others, led, pub,
                        owed, m_vars >>

\* ---- the button timer thread: end_button_timer ---------------------------

ButtonMoves(who, s, t) ==
    /\ Has(button_timer, butt_others, who, s)
    /\ button_timer' = MovedHandle(button_timer, who, t)
    /\ butt_others' = MovedOthers(butt_others, who, s, t)

ButtonFire(who) ==
    /\ ButtonMoves(who, PubTimer("waiting", "empty"), PubTimer("cb_lock", "empty"))
    /\ UNCHANGED << system_state, lock_owner, trig_vars, alrm_vars, led, pub, owed,
                    m_vars >>

\* end_button_timer: the with block
EndButtonTimer(who) ==
    /\ ButtonMoves(who, PubTimer("cb_lock", "empty"), PubTimer("cb_led", "empty"))
    /\ lock_owner = "none"
    /\ system_state' = ButtonTimeoutState
    /\ owed' = owed + AlarmEntry(system_state, ButtonTimeoutState)
    /\ UNCHANGED << lock_owner, trig_vars, alrm_vars, led, pub, m_vars >>

\* end_button_timer: send_led_command
EndButtonLed(who) ==
    /\ ButtonMoves(who, PubTimer("cb_led", "empty"), PubTimer("cb_publish", "empty"))
    /\ led' = LedArmed
    /\ UNCHANGED << system_state, lock_owner, trig_vars, alrm_vars, pub, owed, m_vars >>

\* end_button_timer: publish_system_state, the with block
EndButtonPublish(who) ==
    /\ ButtonMoves(who, PubTimer("cb_publish", "empty"),
                   PubTimer("cb_send", StateMsg(system_state)))
    /\ lock_owner = "none"
    /\ UNCHANGED << system_state, lock_owner, trig_vars, alrm_vars, led, pub, owed,
                    m_vars >>

\* end_button_timer: publish_system_state, mqtt_client.publish; the thread ends
EndButtonSend(who) ==
    \E m \in {"armed", "disarmed", "empty"} :
        /\ ButtonMoves(who, PubTimer("cb_send", m), DeadPubTimer)
        /\ pub' = m
        /\ UNCHANGED << system_state, lock_owner, trig_vars, alrm_vars, led, owed,
                        m_vars >>

\* ---- the alarm timer thread: reset_alarm ----------------------------------

AlarmMoves(who, s, t) ==
    /\ Has(alarm_timer, alrm_others, who, s)
    /\ alarm_timer' = MovedHandle(alarm_timer, who, t)
    /\ alrm_others' = MovedOthers(alrm_others, who, s, t)

AlarmFire(who) ==
    /\ AlarmMoves(who, PubTimer("waiting", "empty"), PubTimer("cb_lock", "empty"))
    /\ UNCHANGED << system_state, lock_owner, trig_vars, butt_vars, led, pub, owed,
                    m_vars >>

\* reset_alarm: the with block
ResetAlarm(who) ==
    /\ AlarmMoves(who, PubTimer("cb_lock", "empty"), PubTimer("cb_led", "empty"))
    /\ lock_owner = "none"
    /\ system_state' = "armed"
    /\ UNCHANGED << lock_owner, trig_vars, butt_vars, led, pub, owed, m_vars >>

\* reset_alarm: send_led_command
ResetAlarmLed(who) ==
    /\ AlarmMoves(who, PubTimer("cb_led", "empty"), PubTimer("cb_publish", "empty"))
    /\ led' = LedArmed
    /\ UNCHANGED << system_state, lock_owner, trig_vars, butt_vars, pub, owed, m_vars >>

\* reset_alarm: publish_system_state, the with block
ResetAlarmPublish(who) ==
    /\ AlarmMoves(who, PubTimer("cb_publish", "empty"),
                  PubTimer("cb_send", StateMsg(system_state)))
    /\ lock_owner = "none"
    /\ UNCHANGED << system_state, lock_owner, trig_vars, butt_vars, led, pub, owed,
                    m_vars >>

\* reset_alarm: publish_system_state, mqtt_client.publish; the thread ends
ResetAlarmSend(who) ==
    \E m \in {"armed", "disarmed", "empty"} :
        /\ AlarmMoves(who, PubTimer("cb_send", m), DeadPubTimer)
        /\ pub' = m
        /\ UNCHANGED << system_state, lock_owner, trig_vars, butt_vars, led, owed,
                        m_vars >>

\* ---- the system -------------------------------------------------------------

MessageStep ==
    \/ \E msg \in Messages : OnMessage(msg)
    \/ StartTriggerTimer
    \/ StartTriggerLed
    \/ AccessCancelAlarm
    \/ AccessClearAlarm
    \/ Return

TriggerStep(who) ==
    \/ TriggerFire(who)
    \/ TriggerAlarm(who)
    \/ TriggerAlarmNotify(who)
    \/ TriggerAlarmNew(who)
    \/ TriggerAlarmStart(who)

ButtonStep(who) ==
    \/ ButtonFire(who)
    \/ EndButtonTimer(who)
    \/ EndButtonLed(who)
    \/ EndButtonPublish(who)
    \/ EndButtonSend(who)

AlarmStep(who) ==
    \/ AlarmFire(who)
    \/ ResetAlarm(who)
    \/ ResetAlarmLed(who)
    \/ ResetAlarmPublish(who)
    \/ ResetAlarmSend(who)

Next ==
    \/ MessageStep
    \/ \E who \in Who : TriggerStep(who)
    \/ \E who \in Who : ButtonStep(who)
    \/ \E who \in Who : AlarmStep(who)

Spec == Init /\ [][Next]_vars

\* A handler that has begun runs to its end; a started timer expires; a
\* callback goes on, and one waiting for the lock gets it, the network loop
\* releasing the lock at the end of every handler.
MessageProgress ==
    StartTriggerTimer \/ StartTriggerLed \/ AccessCancelAlarm \/ AccessClearAlarm \/ Return

Fairness ==
    /\ WF_vars(MessageProgress)
    /\ \A who \in Who :
        /\ WF_vars(TriggerFire(who))
        /\ SF_vars(TriggerAlarm(who))
        /\ WF_vars(TriggerAlarmNotify(who) \/ TriggerAlarmNew(who) \/ TriggerAlarmStart(who))
        /\ WF_vars(ButtonFire(who))
        /\ SF_vars(EndButtonTimer(who))
        /\ SF_vars(EndButtonPublish(who))
        /\ WF_vars(EndButtonLed(who) \/ EndButtonSend(who))
        /\ WF_vars(AlarmFire(who))
        /\ SF_vars(ResetAlarm(who))
        /\ SF_vars(ResetAlarmPublish(who))
        /\ WF_vars(ResetAlarmLed(who) \/ ResetAlarmSend(who))

FairSpec == Spec /\ Fairness

\* the part of Fairness that the button timer needs to arm the system
ButtonFairness ==
    /\ WF_vars(MessageProgress)
    /\ \A who \in Who : WF_vars(ButtonFire(who)) /\ SF_vars(EndButtonTimer(who))

ButtonFairSpec == Spec /\ ButtonFairness

TypeOK ==
    /\ system_state \in States
    /\ lock_owner \in {"none", "msg"}
    /\ m_pc \in {"idle", "start_trigger_timer", "start_trigger_led", "cancel_alarm",
                  "clear_alarm", "return", "raised"}
    /\ m_msg \in Messages \cup {NoMessage}
    /\ trigger_timer \in TrigLive \cup {NoTrigTimer, DeadTrigTimer}
    /\ button_timer \in PubLive \cup {NoPubTimer, DeadPubTimer}
    /\ alarm_timer \in PubLive \cup {NoPubTimer, DeadPubTimer, PubTimer("created", "empty")}
    /\ owed \in 0..MaxLive
    /\ TotalLive <= MaxLive
    /\ pub \in {"armed", "disarmed"}
    /\ led \in {LedDisarmed, LedArmed, LedButtonPending, LedTriggerPending, LedAlarm}

\* ---- what the properties speak of -------------------------------------------

\* a door-contact message reporting the door open
IsDoorOpen(msg) == msg.topic = DOOR_TOPIC /\ msg.data.contact = "false"

\* a button press from the access panel
IsButtonMessage(msg) ==
    msg.topic \in {ACCESS_TOPIC, ACCESS_BUTTON} /\ msg.data.button = "ON"

\* the uids of the messages that no allow-list entry equals, case ignored
DeniedUids ==
    { u \in Uids : \A k \in DOMAIN ALLOWED_USERS : Lower(u) # Lower(ALLOWED_USERS[k].uid) }

\* a credential read, by the allow-list
IsRead(msg) == msg.data.nfc = "UID" /\ msg.data.button # "ON"

IsDeniedRead(msg) == IsRead(msg) /\ msg.data.uid \in DeniedUids

\* a read of an allow-listed uid that process_access_message gets
IsValidRead(msg) ==
    /\ Route(msg.topic) = "access"
    /\ IsRead(msg)
    /\ msg.data.uid \notin DeniedUids

\* on_message starts handling a message / the handler reaches its end
Begins == m_pc = "idle" /\ m_pc' # "idle"

Completes == m_pc # "return" /\ m_pc' = "return"

\* number of Timer objects of one kind at position s
CountAt(h, o, s) == (IF h = s THEN 1 ELSE 0) + o[s]

\* number of trigger_alarm executions at statement pc
TriggerAlarmAt(pc) ==
    CountAt(trigger_timer, trig_others, TrigTimer(pc, FALSE))
    + CountAt(trigger_timer, trig_others, TrigTimer(pc, TRUE))

ArmedView == {"armed", "trigger_pending", "alarm"}
DisarmedView == {"disarmed", "button_pending"}

\* ---- C1 ---------------------------------------------------------------------

\* C1: when the handler of a door-open message ends, it has set the state to
\* trigger_pending if and only if the state it read was armed, and it has set
\* no other state: read in any of the other four states, it has set none.
C1_DoorOpenTriggersIffArmed ==
    (m_pc = "return" /\ IsDoorOpen(m_msg)) =>
        /\ m_cur \in States
        /\ m_wrote = (IF m_cur = "armed" THEN "trigger_pending" ELSE "none")

\* a door-open message handled in armed: trigger_pending set, timer started
C1_Witness ==
    /\ m_pc = "return"
    /\ IsDoorOpen(m_msg)
    /\ m_cur = "armed"
    /\ m_wrote = "trigger_pending"
    /\ system_state = "trigger_pending"
    /\ trigger_timer.pc = "waiting"

\* ---- C2 ---------------------------------------------------------------------

\* C2: a trigger_alarm execution whose timer a valid credential read
\* cancelled (after the callback had begun) never gets past its state check:
\* it sets no state and issues no indicator command or notification.
C2_StaleCallbackInert ==
    \A pc \in {"cb_led", "cb_new", "cb_start"} :
        CountAt(trigger_timer, trig_others, TrigTimer(pc, TRUE)) = 0

\* ---- C3 ---------------------------------------------------------------------

\* a valid credential read is being handled or has just been handled
ValidReadHandled == m_pc # "idle" /\ IsValidRead(m_msg)

\* C3: once the state is trigger_pending it becomes alarm, and once it is
\* alarm it becomes armed, unless a valid credential is read in between.
C3_EscalationCycle ==
    /\ (system_state = "trigger_pending") ~> (system_state = "alarm" \/ ValidReadHandled)
    /\ (system_state = "alarm") ~> (system_state = "armed" \/ ValidReadHandled)

\* ---- C4 ---------------------------------------------------------------------

\* C4: the entries into alarm not yet followed by a send_telegram_message call
\* are exactly the trigger_alarm executions that have set alarm and not yet
\* reached the call: one call for each entry, none without an entry (so none
\* in a cycle that a valid read ends in trigger_pending).
C4_NotifyOncePerAlarm == owed = TriggerAlarmAt("cb_led")

\* the notification of an alarm entry has been issued
C4_Witness ==
    /\ system_state = "alarm"
    /\ TriggerAlarmAt("cb_new") = 1
    /\ owed = 0

\* ---- C5 ---------------------------------------------------------------------

\* C5: when the handler of a valid credential read that found the state
\* trigger_pending or alarm ends, the state is disarmed and no trigger timer
\* and no alarm timer is outstanding.
C5_ValidReadDisarmsAndCancels ==
    [][ (Completes /\ IsValidRead(m_msg') /\ system_state \in {"trigger_pending", "alarm"})
          => /\ system_state' = "disarmed"
             /\ Outstanding(trigger_timer', trig_others') = 0
             /\ Outstanding(alarm_timer', alrm_others') = 0 ]_vars

\* ---- C6 ---------------------------------------------------------------------

\* C6: handling a read of a uid that is not in the allow-list changes neither
\* the state nor any timer or timer field, and publishes no indicator
\* command, no status and no notification.
C6_DeniedReadChangesNothing ==
    [][ (Begins /\ IsDeniedRead(m_msg'))
          => /\ m_pc' = "return"
             /\ m_wrote' = "none"
             /\ UNCHANGED << system_state, lock_owner, trig_vars, butt_vars, alrm_vars,
                             led, pub, owed >> ]_vars

\* a denied read handled while the alarm is on
C6_Witness ==
    /\ m_pc = "return"
    /\ IsDeniedRead(m_msg)
    /\ m_msg.topic = ACCESS_TOPIC
    /\ system_state = "alarm"
    /\ Outstanding(alarm_timer, alrm_others) = 1

\* ---- C7 ---------------------------------------------------------------------

\* C7: handling a button press in disarmed sets button_pending and starts one
\* button timer; in any other state it changes neither the state nor a timer.
C7_ButtonOnlyInDisarmed ==
    [][ (Begins /\ IsButtonMessage(m_msg'))
          => IF system_state = "disarmed"
             THEN /\ system_state' = "button_pending"
                  /\ button_timer'.pc = "waiting"
                  /\ Outstanding(button_timer', butt_others')
                       = Outstanding(button_timer, butt_others) + 1
                  /\ UNCHANGED << trig_vars, alrm_vars >>
             ELSE UNCHANGED << system_state, trig_vars, butt_vars, alrm_vars >> ]_vars

\* a button press accepted
C7_Witness ==
    /\ m_pc = "return"
    /\ IsButtonMessage(m_msg)
    /\ m_wrote = "button_pending"
    /\ system_state = "button_pending"
    /\ button_timer.pc = "waiting"

\* ---- C8 ---------------------------------------------------------------------

\* C8: once the state is button_pending it becomes armed, and no step of
\* the handler of a door-open message changes the state while it is
\* button_pending.
C8_ButtonCycle ==
    /\ (system_state = "button_pending") ~> (system_state = "armed")
    /\ [][ (m_pc' # m_pc /\ IsDoorOpen(m_msg') /\ system_state = "button_pending")
             => system_state' = "button_pending" ]_vars

\* the button timer has armed the system after a door-open message was
\* handled in button_pending
C8_Witness ==
    /\ system_state = "armed"
    /\ button_timer.pc = "cb_led"
    /\ m_pc = "return"
    /\ IsDoorOpen(m_msg)
    /\ m_cur = "button_pending"

\* ---- C9 ---------------------------------------------------------------------

\* C9: whenever publish_system_state computes its payload, the payload is
\* "armed" if the state it reads is armed, trigger_pending or alarm and
\* "disarmed" if it is disarmed or button_pending; no empty payload is
\* computed or published.
C9_PayloadIsCoarseView ==
    [][ /\ \A m \in {"armed", "disarmed", "empty"} :
             ( \/ CountAt(button_timer', butt_others', PubTimer("cb_send", m))
                    > CountAt(button_timer, butt_others, PubTimer("cb_send", m))
               \/ CountAt(alarm_timer', alrm_others', PubTimer("cb_send", m))
                    > CountAt(alarm_timer, alrm_others, PubTimer("cb_send", m)) )
             => /\ (m = "armed") <=> (system_state \in ArmedView)
                /\ (m = "disarmed") <=> (system_state \in DisarmedView)
        /\ (Completes /\ m_wrote' = "disarmed")
             => /\ (pub' = "armed") <=> (system_state' \in ArmedView)
                /\ (pub' = "disarmed") <=> (system_state' \in DisarmedView) ]_vars

\* a timer callback has computed the payload "armed" and the state is alarm
C9_Witness ==
    /\ system_state = "alarm"
    /\ \/ CountAt(button_timer, butt_others, PubTimer("cb_send", "armed")) > 0
       \/ CountAt(alarm_timer, alrm_others, PubTimer("cb_send", "armed")) > 0

\* ---- C10 --------------------------------------------------------------------

\* C10: a timer field holds an object only while the state is the one the
\* timer belongs to.
C10_HandleOnlyInItsState ==
    /\ trigger_timer.pc # "None" => system_state = "trigger_pending"
    /\ button_timer.pc # "None" => system_state = "button_pending"
    /\ alarm_timer.pc # "None" => system_state = "alarm"

\* ---- C11 --------------------------------------------------------------------

\* C11: at any time at most one trigger timer, at most one button timer and
\* at most one alarm timer is outstanding (started, not fired, not cancelled).
C11_AtMostOneOutstanding ==
    /\ Outstanding(trigger_timer, trig_others) <= 1
    /\ Outstanding(button_timer, butt_others) <= 1
    /\ Outstanding(alarm_timer, alrm_others) <= 1

\* ---- C12 --------------------------------------------------------------------

\* the topics on_connect subscribes to
KnownTopics == {DOOR_TOPIC, ACCESS_TOPIC, ACCESS_BUTTON}

\* C12: a message whose topic is none of the door, access and button topics
\* reaches no handler: the step handling it changes neither the state nor a
\* timer and publishes no indicator command and no status, whatever its
\* payload.
C12_UnknownTopicDropped ==
    [][ (Begins /\ m_msg' \in Messages /\ m_msg'.topic \notin KnownTopics)
          => /\ m_pc' = "return"
             /\ m_wrote' = "none"
             /\ UNCHANGED << system_state, lock_owner, trig_vars, butt_vars, alrm_vars,
                             led, pub, owed >> ]_vars

\* ---- C13 --------------------------------------------------------------------

\* the step is a `with self.state_lock` block: of a handler of the message
\* thread (the blocks of process_door_message and process_access_message,
\* the block of start_trigger_timer, the alarm branch), of a timer callback
\* or of publish_system_state
LockedStep ==
    \/ /\ m_pc \in {"idle", "start_trigger_timer", "cancel_alarm", "clear_alarm"}
       /\ m_pc' # m_pc
    \/ TriggerAlarmAt("cb_lock")' < TriggerAlarmAt("cb_lock")
    \/ \E pc \in {"cb_lock", "cb_publish"} :
        \/ CountAt(button_timer', butt_others', PubTimer(pc, "empty"))
             < CountAt(button_timer, butt_others, PubTimer(pc, "empty"))
        \/ CountAt(alarm_timer', alrm_others', PubTimer(pc, "empty"))
             < CountAt(alarm_timer, alrm_others, PubTimer(pc, "empty"))

\* the step assigns the field: None, or a new Timer object (fresh), the
\* object it referred to living on if it was running
FieldAssigned(h, o, hn, on, fresh) ==
    \/ hn # h /\ hn.pc \in {"None", fresh.pc}
    \/ hn = fresh /\ fresh \in DOMAIN o /\ on[fresh] = o[fresh] + 1

\* C13: system_state and the three timer fields are written only by steps
\* that hold state_lock.
C13_WritesUnderLock ==
    [][ ( \/ system_state' # system_state
          \/ FieldAssigned(trigger_timer, trig_others, trigger_timer', trig_others',
                           TrigTimer("waiting", FALSE))
          \/ FieldAssigned(button_timer, butt_others, button_timer', butt_others',
                           PubTimer("waiting", "empty"))
          \/ FieldAssigned(alarm_timer, alrm_others, alarm_timer', alrm_others',
                           PubTimer("created", "empty")) )
          => LockedStep ]_vars

\* ---- C14 --------------------------------------------------------------------

\* a payload that is not what its topic's handler expects: not a JSON
\* object, a PN532 value that is no object, a UID that is no string, a
\* contact value that is no boolean, a door message without contact
IsMalformed(msg) ==
    \/ msg.data.json # "object"
    \/ msg.data.nfc \in {"notobject", "UID_number"}
    \/ msg.data.contact = "null"
    \/ msg.topic = DOOR_TOPIC /\ msg.data.contact = "absent"

\* C14: no exception leaves on_message, and the step handling a malformed
\* payload changes neither the state nor any timer.
C14_MalformedHarmless ==
    [][ /\ m_pc' # "raised"
        /\ (Begins /\ IsMalformed(m_msg'))
             => UNCHANGED << system_state, trig_vars, butt_vars, alrm_vars >> ]_vars

\* ---- C15 --------------------------------------------------------------------

\* C15: a trigger_alarm execution that finds trigger_pending under the lock
\* sets alarm, and when it ends an alarm timer it started is outstanding; one
\* that finds any other state changes nothing; every step into alarm is made
\* from trigger_pending by such an execution.
C15_TriggerTimeoutGuard ==
    [][ /\ (TriggerAlarmAt("cb_lock")' < TriggerAlarmAt("cb_lock"))
             => IF system_state = "trigger_pending"
                THEN /\ system_state' = "alarm"
                     /\ TriggerAlarmAt("cb_led")' = TriggerAlarmAt("cb_led") + 1
                ELSE /\ TriggerAlarmAt("cb_led")' = TriggerAlarmAt("cb_led")
                     /\ UNCHANGED << system_state, butt_vars, alrm_vars, led, pub, owed >>
        /\ (TriggerAlarmAt("cb_start")' < TriggerAlarmAt("cb_start"))
             => Outstanding(alarm_timer', alrm_others')
                  = Outstanding(alarm_timer, alrm_others) + 1
        /\ (system_state' = "alarm" /\ system_state # "alarm")
             => /\ system_state = "trigger_pending"
                /\ TriggerAlarmAt("cb_lock")' < TriggerAlarmAt("cb_lock") ]_vars

\* ---- C16 --------------------------------------------------------------------

\* a door-contact message reporting the door closed
IsDoorClosed(msg) == msg.topic = DOOR_TOPIC /\ msg.data.contact = "true"

\* C16: the step handling a door-closed message ends the handler at once and
\* changes neither the state nor any timer or timer field, in every state; it
\* publishes nothing.
C16_DoorClosedChangesNothing ==
    [][ (Begins /\ IsDoorClosed(m_msg'))
          => /\ m_pc' = "return"
             /\ m_wrote' = "none"
             /\ UNCHANGED << system_state, lock_owner, trig_vars, butt_vars, alrm_vars,
                             led, pub, owed >> ]_vars

\* the door was reclosed in trigger_pending: the trigger timer is still running
C16_Witness ==
    /\ m_pc = "return"
    /\ IsDoorClosed(m_msg)
    /\ m_cur = "trigger_pending"
    /\ system_state = "trigger_pending"
    /\ trigger_timer.pc = "waiting"
    /\ Outstanding(trigger_timer, trig_others) = 1

\* ---- C17 --------------------------------------------------------------------

\* the indicator command fixed for each state
IndicatorFor(s) ==
    CASE s = "disarmed" -> <<"on", "off">>
      [] s = "armed" -> <<"off", "on">>
      [] s = "button_pending" -> <<"off", "blink">>
      [] s = "trigger_pending" -> <<"blink", "on">>
      [] s = "alarm" -> <<"blink", "blink">>

\* a timer callback of some kind enters / leaves the statement that follows
\* its with block (send_led_command)
EntersLed ==
    \/ TriggerAlarmAt("cb_led")' > TriggerAlarmAt("cb_led")
    \/ CountAt(button_timer', butt_others', PubTimer("cb_led", "empty"))
         > CountAt(button_timer, butt_others, PubTimer("cb_led", "empty"))
    \/ CountAt(alarm_timer', alrm_others', PubTimer("cb_led", "empty"))
         > CountAt(alarm_timer, alrm_others, PubTimer("cb_led", "empty"))

LeavesLed ==
    \/ TriggerAlarmAt("cb_led")' < TriggerAlarmAt("cb_led")
    \/ CountAt(button_timer', butt_others', PubTimer("cb_led", "empty"))
         < CountAt(button_timer, butt_others, PubTimer("cb_led", "empty"))
    \/ CountAt(alarm_timer', alrm_others', PubTimer("cb_led", "empty"))
         < CountAt(alarm_timer, alrm_others, PubTimer("cb_led", "empty"))

\* C17: a step in which a handler sets the state either publishes the
\* indicator command of the state set or leaves the handler at its
\* send_led_command statement, which then publishes that command; a timer
\* callback that has set the state is at its send_led_command statement and
\* publishes there the command of the state it set; the state changes and the
\* indicator command changes in no other step (an ignored event publishes
\* none).
C17_OneIndicatorPerTransition ==
    [][ /\ (m_wrote' # m_wrote /\ m_wrote' # "none")
             => /\ system_state' = m_wrote'
                /\ \/ led' = IndicatorFor(m_wrote')
                   \/ m_pc' = "start_trigger_led" /\ led' = led
        /\ (m_pc = "start_trigger_led" /\ m_pc' # m_pc)
             => led' = IndicatorFor(m_wrote)
        /\ EntersLed => led' = led
        /\ (TriggerAlarmAt("cb_led")' < TriggerAlarmAt("cb_led"))
             => led' = IndicatorFor("alarm")
        /\ (LeavesLed /\ ~(TriggerAlarmAt("cb_led")' < TriggerAlarmAt("cb_led")))
             => led' = IndicatorFor("armed")
        /\ system_state' # system_state
             => \/ m_wrote' # m_wrote /\ m_wrote' = system_state'
                \/ EntersLed /\ system_state' \in {"armed", "alarm"}
        /\ led' # led
             => \/ m_wrote' # m_wrote /\ m_wrote' # "none"
                \/ m_pc = "start_trigger_led" /\ m_pc' # m_pc
                \/ LeavesLed ]_vars

\* reset_alarm has set armed and published the armed indicator command
C17_Witness ==
    /\ system_state = "armed"
    /\ alarm_timer.pc = "cb_publish"
    /\ led = IndicatorFor("armed")
    /\ m_pc = "idle"

\* ---- C18 --------------------------------------------------------------------

\* no timer callback of the kind is running
NoCallback(h, o) == ~InCallback(h) /\ SumOver(o, { s \in DOMAIN o : InCallback(s) }) = 0

\* no handler and no timer callback is in the middle of executing
Quiescent ==
    /\ m_pc \in {"idle", "raised"}
    /\ NoCallback(trigger_timer, trig_others)
    /\ NoCallback(button_timer, butt_others)
    /\ NoCallback(alarm_timer, alrm_others)

\* C18: whenever no handler and no timer callback is executing, the last
\* indicator command published is the one fixed for the current state.
C18_IndicatorMatchesAtRest ==
    Quiescent => led = IndicatorFor(system_state)

\* ---- C19 --------------------------------------------------------------------

\* C19: the state leaves disarmed only by an accepted button press, that is,
\* only to button_pending: no timer started before the credential read that
\* disarmed the system sets armed or alarm afterwards.
C19_StaysDisarmed ==
    [][ system_state = "disarmed" => system_state' \in {"disarmed", "button_pending"} ]_vars

\* ---- C20 --------------------------------------------------------------------

\* the coarse view of a state
CoarseView(s) == IF s \in ArmedView THEN "armed" ELSE "disarmed"

\* C20: whenever no handler and no timer callback is executing, the last
\* status published is the coarse view of the current state.
C20_StatusMatchesAtRest ==
    Quiescent => pub = CoarseView(system_state)

====
